---- MODULE Spec2Model ----
(***************************************************************************)
(* Model of the mpowering resource store (models.py) and of the resource   *)
(* submission form (forms.py).                                             *)
(*                                                                         *)
(* Text values (titles, names, slugs) are sequences of one-character       *)
(* strings, so that slug derivation is computed and not assumed.           *)
(***************************************************************************)
EXTENDS Integers, Sequences, FiniteSets, Bags, TLC

VARIABLES resources, categories, tags, resourceTags, trackers, form,
          writers

vars == <<resources, categories, tags, resourceTags, trackers, form,
          writers>>

storeVars == <<resources, categories, tags, resourceTags, trackers>>

NULL == "NULL"

(***************************************************************************)
(* Bounds of the model                                                     *)
(***************************************************************************)
MaxResources == 2
MaxCategories == 2
MaxTags == 2
MaxResourceTags == 3
MaxTrackers == 2
MaxOrder == 1
NumTitles == 4
NumUsers == 2
NumIps == 2
NumWriters == 2

(***************************************************************************)
(* Display names offered to the save operations.  Only the first NumTitles *)
(* are used.                                                               *)
(***************************************************************************)
TitleList ==
    << <<"A">>, <<"a">>, <<"a", "-", "2">>, <<"!">>, <<>>,
       <<"A", " ", "b">>, <<" ", "b", "!">> >>

Min(a, b) == IF a < b THEN a ELSE b

Titles == { TitleList[i] : i \in 1..Min(NumTitles, Len(TitleList)) }

(***************************************************************************)
(* Resource.STATUS_TYPES, and the values a caller can hand to save():      *)
(* the column has no default, so an instance built without a status        *)
(* carries the empty string.                                               *)
(***************************************************************************)
REJECTED == "rejected"
PENDING_CRT == "pending_crt"
PENDING_MRT == "pending_mrt"
APPROVED == "approved"

STATUS_TYPES == {REJECTED, PENDING_CRT, PENDING_MRT, APPROVED}

StatusInputs == STATUS_TYPES \cup {""}

(***************************************************************************)
(* Slug derivation (lib.unique_slugify, not part of the sources at hand).  *)
(***************************************************************************)
Lower(c) == CASE c = "A" -> "a"
              [] c = "B" -> "b"
              [] OTHER -> c

IsWord(c) == c \in {"a", "b", "A", "B", "2"}

IsSep(c) == c \in {" ", "-"}

\* drop every character that is neither a word character nor a separator
RECURSIVE KeepSafe(_)
KeepSafe(s) ==
    IF s = <<>> THEN <<>>
    ELSE IF IsWord(Head(s)) \/ IsSep(Head(s))
         THEN <<Head(s)>> \o KeepSafe(Tail(s))
         ELSE KeepSafe(Tail(s))

\* lower-case, and turn every run of separators into one hyphen
RECURSIVE Hyphenate(_, _)
Hyphenate(s, inRun) ==
    IF s = <<>> THEN <<>>
    ELSE IF IsSep(Head(s))
         THEN (IF inRun THEN <<>> ELSE <<"-">>) \o Hyphenate(Tail(s), TRUE)
         ELSE <<Lower(Head(s))>> \o Hyphenate(Tail(s), FALSE)

RECURSIVE StripLeft(_)
StripLeft(s) ==
    IF s # <<>> /\ Head(s) = "-" THEN StripLeft(Tail(s)) ELSE s

RECURSIVE StripRight(_)
StripRight(s) ==
    IF s # <<>> /\ s[Len(s)] = "-"
    THEN StripRight(SubSeq(s, 1, Len(s) - 1))
    ELSE s

slugify(value) == StripRight(StripLeft(Hyphenate(KeepSafe(value), FALSE)))

WithSuffix(original, next) == original \o <<"-", ToString(next)>>

\* first candidate that is not empty and not taken: the plain slug, then
\* the slug followed by -2, -3, ...
RECURSIVE FindSlug(_, _, _)
FindSlug(original, taken, next) ==
    LET candidate == IF next = 1 THEN original
                     ELSE WithSuffix(original, next)
    IN  IF candidate = <<>> \/ candidate \in taken
        THEN FindSlug(original, taken, next + 1)
        ELSE candidate

\* the slugs already in the table, the row of the instance being saved
\* (primary key pk, 0 when it has none) left aside
SlugsOf(table, pk) ==
    { table[i].slug : i \in { j \in 1..Len(table) : j # pk } }

unique_slugify(table, pk, value) ==
    FindSlug(slugify(value), SlugsOf(table, pk), 1)

(***************************************************************************)
(* Model.save: insert the instance when it has no primary key (pk = 0),    *)
(* update its row otherwise.                                               *)
(***************************************************************************)
ModelSave(table, pk, row) ==
    IF pk = 0 THEN Append(table, row) ELSE [table EXCEPT ![pk] = row]

\* the slug of the instance as loaded: NULL for a new instance
LoadedSlug(table, pk) == IF pk = 0 THEN NULL ELSE table[pk].slug

NoSlug(slug) == slug = NULL \/ slug = <<>>

(***************************************************************************)
(* Resource.save                                                           *)
(***************************************************************************)
\* a save that derives the slug without the uniqueness search
ResourceSlugPlain(pk, title) == slugify(title)

ResourceSlugOnSave(pk, title) == unique_slugify(resources, pk, title)

ResourceSave(pk, title, status) ==
    /\ pk = 0 => Len(resources) < MaxResources
    /\ resources' = ModelSave(resources, pk,
                        [title |-> title, status |-> status,
                         slug |-> ResourceSlugOnSave(pk, title)])
    /\ UNCHANGED <<categories, tags, resourceTags, trackers, form, writers>>

(***************************************************************************)
(* Category.save                                                           *)
(***************************************************************************)
CategorySlugOnSave(pk, name) ==
    IF NoSlug(LoadedSlug(categories, pk))
    THEN unique_slugify(categories, pk, name)
    ELSE LoadedSlug(categories, pk)

CategorySave(pk, name, order) ==
    /\ pk = 0 => Len(categories) < MaxCategories
    /\ categories' = ModelSave(categories, pk,
                        [name |-> name, order_by |-> order,
                         slug |-> CategorySlugOnSave(pk, name)])
    /\ UNCHANGED <<resources, tags, resourceTags, trackers, form, writers>>

(***************************************************************************)
(* Tag.save                                                                *)
(***************************************************************************)
TagSlugOnSave(pk, name) ==
    IF NoSlug(LoadedSlug(tags, pk))
    THEN unique_slugify(tags, pk, name)
    ELSE LoadedSlug(tags, pk)

TagSave(pk, name, category) ==
    /\ pk = 0 => Len(tags) < MaxTags
    /\ category \in 1..Len(categories)
    /\ tags' = ModelSave(tags, pk,
                        [name |-> name, category |-> category,
                         slug |-> TagSlugOnSave(pk, name)])
    /\ UNCHANGED <<resources, categories, resourceTags, trackers, form, writers>>

(***************************************************************************)
(* ResourceTag rows: the table has no uniqueness constraint, so it is a    *)
(* bag of (resource, tag) pairs.                                           *)
(***************************************************************************)
ResourceTagSave(resource, tag) ==
    /\ BagCardinality(resourceTags) < MaxResourceTags
    /\ resource \in 1..Len(resources)
    /\ tag \in 1..Len(tags)
    /\ resourceTags' = resourceTags (+)
                            SetToBag({[resource |-> resource, tag |-> tag]})
    /\ UNCHANGED <<resources, categories, tags, trackers, form, writers>>

(***************************************************************************)
(* Query sets.  A filter across a relation is a join: it yields one result *)
(* row per matching row of the joined table.                               *)
(***************************************************************************)
\* the rows of B that are in S, with their multiplicity
FilterBag(B, S) == [e \in S \cap DOMAIN B |-> B[e]]

Distinct(B) == SetToBag(BagToSet(B))

\* Category.objects.filter(tag__resourcetag__resource=self)
CategoryJoin(resource) ==
    BagOfAll(LAMBDA row : tags[row.tag].category,
             FilterBag(resourceTags,
                 { row \in DOMAIN resourceTags : row.resource = resource }))

\* Tag.objects.filter(resourcetag__resource=self, category=c)
TagJoin(resource, c) ==
    BagOfAll(LAMBDA row : row.tag,
             FilterBag(resourceTags,
                 { row \in DOMAIN resourceTags :
                     /\ row.resource = resource
                     /\ tags[row.tag].category = c }))

\* order_by('order_by'): every listing of the rows of B in non-decreasing
\* display order (the order among equal keys is left to the database)
OrderByOrder(B) ==
    { s \in [1..BagCardinality(B) -> BagToSet(B)] :
        /\ \A c \in BagToSet(B) :
              Cardinality({ i \in DOMAIN s : s[i] = c }) = CopiesIn(c, B)
        /\ \A i, j \in DOMAIN s :
              i < j => categories[s[i]].order_by <= categories[s[j]].order_by }

\* the same query without distinct()
CategoriesNotDistinct(resource) == OrderByOrder(CategoryJoin(resource))

CategoriesOf(resource) == OrderByOrder(Distinct(CategoryJoin(resource)))

\* Resource.get_categories: the possible results, each a sequence of
\* categories (pk) carrying their tags
get_categories(resource) ==
    { [i \in DOMAIN s |-> [pk |-> s[i], tags |-> TagJoin(resource, s[i])]] :
        s \in CategoriesOf(resource) }

(***************************************************************************)
(* ResourceTracker rows.  user and resource are nullable: 0 stands for     *)
(* None.  ip is the address of the request; rows without an address are    *)
(* left out, as whether SQL counts a NULL among the distinct values        *)
(* depends on the query the installed framework issues.  The table is      *)
(* append-only and a bag, as nothing keeps two rows from carrying the same *)
(* values.                                                                 *)
(***************************************************************************)
VIEW == "view"
VIEW_API == "view-api"
EDIT == "edit"
DOWNLOAD == "download"
CREATE == "create"

TRACKER_TYPES == {VIEW, VIEW_API, EDIT, DOWNLOAD, CREATE}

ResourceTrackerSave(user, type, resource, ip) ==
    /\ BagCardinality(trackers) < MaxTrackers
    /\ resource \in 0..Len(resources)
    /\ trackers' = trackers (+)
                      SetToBag({[user |-> user, type |-> type,
                                 resource |-> resource, ip |-> ip]})
    /\ UNCHANGED <<resources, categories, tags, resourceTags, form, writers>>

\* values_list(column, flat=True).distinct().count()
DistinctCount(values) == BagCardinality(Distinct(values))

\* Resource.get_no_hits
get_no_hits(resource) ==
    LET anon == DistinctCount(
                    BagOfAll(LAMBDA t : t.ip,
                        FilterBag(trackers,
                            { t \in DOMAIN trackers :
                                t.resource = resource /\ t.user = 0 })))
        identified == DistinctCount(
                    BagOfAll(LAMBDA t : t.user,
                        FilterBag(trackers,
                            { t \in DOMAIN trackers :
                                t.resource = resource /\ t.user # 0 })))
    IN  anon + identified

(***************************************************************************)
(* ResourceForm.  A submission gives every field a value:                  *)
(*   text fields          "" (nothing entered) or a text                   *)
(*   image                "none", "ok" or "bad" (not a readable image)     *)
(*   file                 a record; present = FALSE when nothing uploaded  *)
(*   url                  a sequence of parts, <<>> when nothing entered   *)
(*   multi-select groups  the set of options ticked                        *)
(*   license              "" or the option chosen                          *)
(* An error is a record of a message and its parameters; the errors of a   *)
(* field are a sequence of errors.                                         *)
(***************************************************************************)
TextFields == {"title", "organisations", "description"}

MultiSelects ==
    {"health_topic", "resource_type", "audience", "geography", "device"}

\* the fields in the order of their declaration
FieldOrder ==
    <<"title", "organisations", "description", "image", "file", "url",
      "health_topic", "resource_type", "audience", "geography", "device",
      "license", "other_tags">>

\* the declarations with the message of device copied to geography
RequiredMessageCopied(field) ==
    CASE field = "title" -> "Please enter a title"
      [] field = "organisations" -> "Please enter at least one organisation"
      [] field = "description" -> "Please enter a description"
      [] field = "health_topic" -> "Please select at least one health topic"
      [] field = "resource_type" -> "Please select at least one resource type"
      [] field = "audience" -> "Please select at least one audience"
      [] field = "geography" -> "Please select at least one device"
      [] field = "device" -> "Please select at least one device"
      [] field = "license" -> "Please select a license"

\* error_messages={'required': ...} of the field declarations
RequiredMessage(field) ==
    CASE field = "title" -> "Please enter a title"
      [] field = "organisations" -> "Please enter at least one organisation"
      [] field = "description" -> "Please enter a description"
      [] field = "health_topic" -> "Please select at least one health topic"
      [] field = "resource_type" -> "Please select at least one resource type"
      [] field = "audience" -> "Please select at least one audience"
      [] field = "geography" -> "Please select at least one geographical area"
      [] field = "device" -> "Please select at least one device"
      [] field = "license" -> "Please select a license"

Err(message) == [message |-> message, params |-> <<>>]

MSG_CORRECT == "Please correct the errors below and resubmit the form."
MSG_FILE_OR_URL == "Please submit a file and/or a url for this resource"
MSG_FILE_TYPE == "File type is not supported"
MSG_FILE_SIZE ==
    "Please keep filesize under %(max_size)s. Current filesize %(actual_size)s"
MSG_URL == "This does not appear to be a valid Url"
MSG_IMAGE == "invalid_image"

\* the upload settings of the hosting environment
TASK_UPLOAD_FILE_MAX_SIZE == 2
TASK_UPLOAD_FILE_TYPES == {"application", "image"}

NoFile == [present |-> FALSE, name |-> <<>>, content_type |-> <<>>, size |-> 0]

\* name is split at '.', content_type at '/'; an upload is not empty
Files ==
    {NoFile} \cup
    [present : {TRUE},
     name : {<<"doc", "pdf">>, <<"doc">>},
     content_type : {<<"application", "pdf">>, <<"text", "html">>},
     size : {1, TASK_UPLOAD_FILE_MAX_SIZE, TASK_UPLOAD_FILE_MAX_SIZE + 1}]

Urls == { <<>>, <<"https", "://", "example.org", "/doc">>, <<"not a url">> }

Submissions ==
    [title : {"", "t"}, organisations : {"", "o"}, description : {"", "d"},
     image : {"none", "ok", "bad"}, file : Files, url : Urls,
     health_topic : SUBSET {"opt"}, resource_type : SUBSET {"opt"},
     audience : SUBSET {"opt"}, geography : SUBSET {"opt"},
     device : SUBSET {"opt"}, license : {"", "opt"},
     other_tags : {"", "x"}]

\* forms.py imports neither settings nor filesizeformat, so a reference to
\* either raises NameError
SettingsImported == FALSE

\* URLValidator
URLValid(url) ==
    /\ Len(url) >= 3
    /\ url[1] \in {"http", "https", "ftp", "ftps"}
    /\ url[2] = "://"
    /\ url[3] # ""

\* the body of the try block of clean_file: the exception it raises,
\* <<>> when it completes
CleanFileBody(file) ==
    IF ~file.present THEN <<>>
    ELSE LET file_type == Head(file.content_type)
         IN  IF Len(file.name) = 1 THEN <<Err(MSG_FILE_TYPE)>>
             ELSE IF ~SettingsImported THEN <<"NameError">>
             ELSE IF file_type \in TASK_UPLOAD_FILE_TYPES
                  THEN IF file.size > TASK_UPLOAD_FILE_MAX_SIZE
                       THEN <<[message |-> MSG_FILE_SIZE,
                               params |-> <<TASK_UPLOAD_FILE_MAX_SIZE,
                                            file.size>>]>>
                       ELSE <<>>
                  ELSE <<Err(MSG_FILE_TYPE)>>

\* 'except: pass' catches every exception, ValidationError included
ExceptPass(raised) == <<>>

\* clean_file: the errors it reports
clean_file(file) == ExceptPass(CleanFileBody(file))

\* clean_url
clean_url(url) ==
    IF url # <<>> /\ ~URLValid(url) THEN <<Err(MSG_URL)>> ELSE <<>>

\* Field.clean followed by clean_<field>: the errors of one field
FieldErrors(field, data) ==
    CASE field \in TextFields ->
            IF data[field] = "" THEN <<Err(RequiredMessage(field))>> ELSE <<>>
      [] field \in MultiSelects ->
            IF data[field] = {} THEN <<Err(RequiredMessage(field))>> ELSE <<>>
      [] field = "license" ->
            IF data[field] = "" THEN <<Err(RequiredMessage(field))>> ELSE <<>>
      [] field = "image" ->
            IF data[field] = "bad" THEN <<Err(MSG_IMAGE)>> ELSE <<>>
      [] field = "file" -> clean_file(data.file)
      [] field = "url" -> clean_url(data.url)
      [] OTHER -> <<>>

Fields == { FieldOrder[i] : i \in DOMAIN FieldOrder }

\* _clean_fields
CleanFields(data) == [f \in Fields |-> FieldErrors(f, data)]

\* cleaned_data.get(field): None (here NoFile, <<>>) when the field failed
CleanedFile(data, errors) ==
    IF errors["file"] = <<>> THEN data.file ELSE NoFile

CleanedUrl(data, errors) ==
    IF errors["url"] = <<>> THEN data.url ELSE <<>>

\* a clean that tests 'url is None' in place of 'not url'
clean_url_is_none(data, errors) ==
    IF \E f \in Fields : errors[f] # <<>> THEN <<Err(MSG_CORRECT)>>
    ELSE <<>>

\* a clean without the test of self._errors
clean_unguarded(data, errors) ==
    IF ~CleanedFile(data, errors).present /\ CleanedUrl(data, errors) = <<>>
    THEN <<Err(MSG_FILE_OR_URL)>>
    ELSE <<>>

\* ResourceForm.clean: the form-level errors
clean(data, errors) ==
    IF \E f \in Fields : errors[f] # <<>> THEN <<Err(MSG_CORRECT)>>
    ELSE IF ~CleanedFile(data, errors).present
            /\ CleanedUrl(data, errors) = <<>>
         THEN <<Err(MSG_FILE_OR_URL)>>
         ELSE <<>>

\* ResourceForm(data): a form is bound to the submitted data
ResourceFormInit ==
    /\ form.state = "none"
    /\ \E data \in Submissions : form' = [state |-> "bound", data |-> data]
    /\ UNCHANGED <<storeVars, writers>>

\* full_clean, as run by is_valid()
FullClean ==
    /\ form.state = "bound"
    /\ LET errors == CleanFields(form.data)
       IN  form' = [state |-> "cleaned", data |-> form.data,
                    errors |-> errors,
                    non_field_errors |-> clean(form.data, errors)]
    /\ UNCHANGED <<storeVars, writers>>

is_valid(f) ==
    /\ f.non_field_errors = <<>>
    /\ \A field \in Fields : f.errors[field] = <<>>

(***************************************************************************)
(* Concurrent writers.  Each writer is a request that saves one new        *)
(* Resource; Resource.save is two statements, and the statements of two    *)
(* requests interleave.  A writer records the instance it holds: its       *)
(* title, the slug found for it, how many rows the table had when the      *)
(* slugs were looked up (seen) and the primary key it got when written.    *)
(***************************************************************************)
Writers == 1..NumWriters

IdleWriter == [pc |-> "idle", title |-> <<>>, slug |-> <<>>, seen |-> 0,
               pk |-> 0]

\* unique_slugify(self, self.title): the slugs of the stored rows are
\* read and the slug found is set on the instance
SlugLookup(w, title) ==
    /\ writers[w].pc = "idle"
    /\ writers' = [writers EXCEPT ![w] =
                       [pc |-> "slugged", title |-> title,
                        slug |-> unique_slugify(resources, 0, title),
                        seen |-> Len(resources), pk |-> 0]]
    /\ UNCHANGED <<storeVars, form>>

\* a write that looks the slugs up again in the transaction of the insert
SlugRechecked(w) == unique_slugify(resources, 0, writers[w].title)

\* the slug written is the one the instance carries since the lookup; the
\* slug column is declared without unique=True, so any value is accepted
SlugWritten(w) == writers[w].slug

\* super(Resource, self).save(): the row is inserted
RowWrite(w, status) ==
    /\ writers[w].pc = "slugged"
    /\ Len(resources) < MaxResources
    /\ resources' = Append(resources,
                        [title |-> writers[w].title, status |-> status,
                         slug |-> SlugWritten(w)])
    /\ writers' = [writers EXCEPT ![w].pc = "done",
                                  ![w].pk = Len(resources) + 1]
    /\ UNCHANGED <<categories, tags, resourceTags, trackers, form>>

Init ==
    /\ resources = <<>>
    /\ categories = <<>>
    /\ tags = <<>>
    /\ resourceTags = EmptyBag
    /\ trackers = EmptyBag
    /\ form = [state |-> "none"]
    /\ writers = [w \in Writers |-> IdleWriter]

(***************************************************************************)
(* Resources: creations and re-saves of Resource rows.                     *)
(***************************************************************************)
NextResource ==
    \E pk \in 0..Len(resources), title \in Titles, status \in StatusInputs :
        ResourceSave(pk, title, status)

SpecResource == Init /\ [][NextResource]_vars

(***************************************************************************)
(* Tagging: categories, tags and the tagging of resources.                 *)
(***************************************************************************)
Names == { TitleList[1] }

NextTagging ==
    \/ \E pk \in 0..Len(resources) :
          ResourceSave(pk, TitleList[1], PENDING_CRT)
    \/ \E pk \in 0..Len(categories), name \in Names, order \in 0..MaxOrder :
          CategorySave(pk, name, order)
    \/ \E pk \in 0..Len(tags), name \in Names, c \in 1..Len(categories) :
          TagSave(pk, name, c)
    \/ \E r \in 1..Len(resources), t \in 1..Len(tags) :
          ResourceTagSave(r, t)

SpecTagging == Init /\ [][NextTagging]_vars

(***************************************************************************)
(* Tracking: accesses to resources are logged.                             *)
(***************************************************************************)
NextTracking ==
    \/ ResourceSave(0, TitleList[1], PENDING_CRT)
    \/ \E user \in 0..NumUsers, type \in TRACKER_TYPES,
           r \in 0..Len(resources), ip \in 1..NumIps :
          ResourceTrackerSave(user, type, r, ip)

SpecTracking == Init /\ [][NextTracking]_vars

(***************************************************************************)
(* Submission: one submission is validated while resources are stored.     *)
(***************************************************************************)
NextForm ==
    \/ ResourceSave(0, TitleList[1], PENDING_CRT)
    \/ ResourceFormInit
    \/ FullClean

SpecForm == Init /\ [][NextForm]_vars

(***************************************************************************)
(* Concurrent saves: the writers' lookups and writes in any order.         *)
(***************************************************************************)
NextConcurrent ==
    \/ \E w \in Writers, title \in Titles : SlugLookup(w, title)
    \/ \E w \in Writers : RowWrite(w, PENDING_CRT)

SpecConcurrent == Init /\ [][NextConcurrent]_vars

(***************************************************************************)
(* C1: a submission with neither file nor url and every other field valid  *)
(* fails validation with the cross-field message as a form-level error.    *)
(***************************************************************************)
Messages(errors) == { errors[i].message : i \in DOMAIN errors }

OthersValid(data) ==
    /\ data.title # "" /\ data.organisations # "" /\ data.description # ""
    /\ data.image # "bad"
    /\ data.health_topic # {} /\ data.resource_type # {}
    /\ data.audience # {} /\ data.geography # {} /\ data.device # {}
    /\ data.license # ""

NeitherFileNorUrl(data) == ~data.file.present /\ data.url = <<>>

FileOrUrlRequired ==
    (/\ form.state = "cleaned"
     /\ NeitherFileNorUrl(form.data)
     /\ OthersValid(form.data))
    => (/\ ~is_valid(form)
        /\ "Please submit a file and/or a url for this resource"
              \in Messages(form.non_field_errors))

\* such a submission has been validated and is rejected for that reason only
NoAttachmentRejected ==
    /\ form.state = "cleaned"
    /\ NeitherFileNorUrl(form.data)
    /\ OthersValid(form.data)
    /\ \A f \in Fields : form.errors[f] = <<>>
    /\ Len(form.non_field_errors) = 1

(***************************************************************************)
(* C2: a submission carrying a file whose top-level content type is not in *)
(* the allow-list fails validation with 'File type is not supported' on    *)
(* the file field, whatever the other fields contain.                      *)
(***************************************************************************)
UnsupportedTypeRejected ==
    (/\ form.state = "cleaned"
     /\ form.data.file.present
     /\ Head(form.data.file.content_type) \notin TASK_UPLOAD_FILE_TYPES)
    => (/\ ~is_valid(form)
        /\ "File type is not supported" \in Messages(form.errors["file"]))

(***************************************************************************)
(* C3: a submission carrying a file larger than the configured maximum     *)
(* fails validation with an error on the file field that reports both the  *)
(* limit and the size of the file.                                         *)
(***************************************************************************)
OversizeRejected ==
    (/\ form.state = "cleaned"
     /\ form.data.file.present
     /\ form.data.file.size > TASK_UPLOAD_FILE_MAX_SIZE)
    => (/\ ~is_valid(form)
        /\ \E i \in DOMAIN form.errors["file"] :
              form.errors["file"][i].params =
                  <<TASK_UPLOAD_FILE_MAX_SIZE, form.data.file.size>>)

(***************************************************************************)
(* C4: a submission missing title, description or one of the required      *)
(* multi-select groups fails validation with the 'required' message of     *)
(* that field, and validation leaves the store unchanged.                  *)
(***************************************************************************)
ExpectedRequired ==
    [title |-> "Please enter a title",
     description |-> "Please enter a description",
     health_topic |-> "Please select at least one health topic",
     resource_type |-> "Please select at least one resource type",
     audience |-> "Please select at least one audience",
     geography |-> "Please select at least one geographical area",
     device |-> "Please select at least one device"]

Missing(data, field) ==
    IF field \in MultiSelects THEN data[field] = {} ELSE data[field] = ""

RequiredReported(before, after) ==
    \A field \in DOMAIN ExpectedRequired :
        Missing(before.data, field)
        => (/\ ~is_valid(after)
            /\ Messages(after.errors[field]) = {ExpectedRequired[field]})

ValidationReportsRequired ==
    [][ (form.state = "bound" /\ form'.state = "cleaned")
        => (/\ storeVars' = storeVars
            /\ RequiredReported(form, form')) ]_vars

\* a submission without title and without geography has been validated
\* while a resource is stored
MissingFieldsRejected ==
    /\ form.state = "cleaned"
    /\ form.data.title = ""
    /\ form.data.geography = {}
    /\ form.errors["title"] # <<>>
    /\ form.errors["geography"] # <<>>
    /\ Len(resources) > 0

(***************************************************************************)
(* C5: when per-field validation produced an error, the field errors are   *)
(* reported and the cross-field message is not among the reported errors,  *)
(* also when both file and url are absent.                                 *)
(***************************************************************************)
HasFieldError(f) == \E field \in Fields : f.errors[field] # <<>>

ReportedMessages(f) ==
    Messages(f.non_field_errors)
        \cup UNION { Messages(f.errors[field]) : field \in Fields }

FieldErrorsNotMasked ==
    (form.state = "cleaned" /\ HasFieldError(form))
    => (/\ ~is_valid(form)
        /\ "Please submit a file and/or a url for this resource"
              \notin ReportedMessages(form))

\* a submission with a field error and neither file nor url has been
\* validated
FieldErrorWithoutAttachment ==
    /\ form.state = "cleaned"
    /\ NeitherFileNorUrl(form.data)
    /\ form.data.description = ""
    /\ HasFieldError(form)

SlugKept(table, tableNext) ==
    \A i \in 1..Len(table) :
        ~NoSlug(table[i].slug) => tableNext[i].slug = table[i].slug

SlugAssignedOnce ==
    [][ /\ SlugKept(resources, resources')
        /\ SlugKept(categories, categories')
        /\ SlugKept(tags, tags') ]_vars

(***************************************************************************)
(* C8: the status of every stored Resource is one of the four values of    *)
(* STATUS_TYPES, after its creation through save and after every later     *)
(* save.                                                                   *)
(***************************************************************************)
StatusEnumerated ==
    \A i \in 1..Len(resources) : resources[i].status \in STATUS_TYPES

(***************************************************************************)
(* C10: get_categories(resource) returns exactly the Categories owning a   *)
(* Tag attached to the Resource, each once, in non-decreasing display      *)
(* order, each carrying exactly its Tags that are attached to the          *)
(* Resource.                                                               *)
(***************************************************************************)
Attached(resource, tag) ==
    \E row \in BagToSet(resourceTags) :
        row.resource = resource /\ row.tag = tag

AttachedTagsIn(resource, c) ==
    { t \in 1..Len(tags) : tags[t].category = c /\ Attached(resource, t) }

CategoriesByOrder ==
    \A r \in 1..Len(resources) :
      \A res \in get_categories(r) :
        /\ { res[i].pk : i \in DOMAIN res } =
             { c \in 1..Len(categories) : AttachedTagsIn(r, c) # {} }
        /\ \A i, j \in DOMAIN res : i # j => res[i].pk # res[j].pk
        /\ \A i, j \in DOMAIN res :
             i < j => categories[res[i].pk].order_by
                          <= categories[res[j].pk].order_by
        /\ \A i \in DOMAIN res :
             BagToSet(res[i].tags) = AttachedTagsIn(r, res[i].pk)

\* a resource tagged twice with the same tag and once with a tag of another
\* category, the categories stored against their display order
TaggedTwice ==
    \E r \in 1..Len(resources) :
      \E res \in get_categories(r) :
        /\ Len(res) = 2
        /\ res[1].pk > res[2].pk
        /\ categories[res[1].pk].order_by < categories[res[2].pk].order_by
        /\ \E i \in DOMAIN res, t \in 1..Len(tags) :
              CopiesIn(t, res[i].tags) = 2

(***************************************************************************)
(* C9: get_no_hits(resource) is the number of distinct IPs among the       *)
(* anonymous rows recording a view of the resource plus the number of      *)
(* distinct users among the identified rows recording a view of it; rows   *)
(* of other resources and of other access types do not contribute.         *)
(***************************************************************************)
IsView(t) == t.type \in {VIEW, VIEW_API}

ViewRows(resource) ==
    { t \in BagToSet(trackers) : t.resource = resource /\ IsView(t) }

HitsCountViewsOnly ==
    \A r \in 1..Len(resources) :
        get_no_hits(r) =
            Cardinality({ t.ip : t \in { v \in ViewRows(r) : v.user = 0 } })
            + Cardinality({ t.user : t \in { v \in ViewRows(r) : v.user # 0 } })

(***************************************************************************)
(* C11: slug assignment has no concurrency control: when two writers save  *)
(* two new Resources with the same title and each looks the slugs up       *)
(* before the other writes its row, both stored Resources get the same     *)
(* slug.                                                                   *)
(***************************************************************************)
Raced(w1, w2) ==
    /\ w1 # w2
    /\ writers[w1].pc = "done" /\ writers[w2].pc = "done"
    /\ writers[w1].title = writers[w2].title
    /\ writers[w1].seen = writers[w2].seen

ConcurrentSavesCollide ==
    \A w1, w2 \in Writers :
        Raced(w1, w2)
        => resources[writers[w1].pk].slug = resources[writers[w2].pk].slug

\* two writers have stored two Resources with the same title and the same
\* slug
DuplicateSlugStored ==
    \E w1, w2 \in Writers :
        /\ Raced(w1, w2)
        /\ writers[w1].pk # writers[w2].pk
        /\ resources[writers[w1].pk].title = resources[writers[w2].pk].title
        /\ resources[writers[w1].pk].slug = resources[writers[w2].pk].slug

====
